---------------------------- MODULE Spec2Model ----------------------------
(***************************************************************************)
(* Model of the event-stream-engine: the campaign orchestrator             *)
(* (app/runner/tasks.py), the scheduler sweep, the trigger API             *)
(* (app/api/v1/public_api.py), the webhook endpoints (app/main.py), the    *)
(* asynchronous webhook processors (app/tasks/webhook_processor.py) and    *)
(* the Redis rate limiter (app/core/rate_limiter.py).                      *)
(*                                                                         *)
(* The source names the User key phone_e164 / phone_number and the Message *)
(* recipient recipient_phone / phone_number / user_phone in different      *)
(* files; the model treats them as one column, the normalized phone.       *)
(*                                                                         *)
(* Strings that the code converts (phones, bodies, provider statuses) are  *)
(* sequences of one-character strings, so that lower(), strip() and the    *)
(* regular expressions are computed, not assumed.                          *)
(***************************************************************************)
EXTENDS Integers, Sequences, FiniteSets, Bags, TLC

VARIABLES
    users,          \* users table: phone -> [consent_state, attributes]
    inboundEvents,  \* events_inbound table, a sequence of rows (index = id)
    receipts,       \* delivery_receipts table, a sequence of rows (index = id)
    messages,       \* messages table, a sequence of rows (index = id)
    lastResponse,   \* history: outcome of the last webhook request or task
    handlers,       \* position of each inbound webhook request in flight
    now,            \* wall clock, in ticks of 1/TicksPerSecond second
    redis,          \* rate-limit keys: <<campaign, second>> -> [count, expireAt]
    callers,        \* position of each check_and_increment call in flight
    ncalls,         \* number of check_and_increment calls made so far
    admissions,     \* history: <<campaign, key second, tick>> -> calls admitted
    campaignStatus, \* campaigns table: campaign id -> Campaign.status
    jobs,           \* the Celery queue: a bag of task messages
    workers,        \* position of each Celery worker in the task it executes
    sweepers,       \* position of each check_scheduled_campaigns execution
    apiCalls,       \* position of each campaign API request in flight
    nsteps,         \* number of sweeps and API requests made so far
    nenq,           \* number of task messages published so far
    dispatches      \* history: campaign -> sweep dispatches in this READY period

limiterVars == <<now, redis, callers, ncalls, admissions>>

storeVars == <<users, inboundEvents, receipts, messages, lastResponse, handlers>>

orchVars == <<campaignStatus, jobs, workers, sweepers, apiCalls, nsteps, nenq, dispatches>>

vars == <<users, inboundEvents, receipts, messages, lastResponse, handlers,
          now, redis, callers, ncalls, admissions,
          campaignStatus, jobs, workers, sweepers, apiCalls, nsteps, nenq, dispatches>>

-----------------------------------------------------------------------------
(* Bounds of the model *)

MaxTick == 5

\* webhook requests, processing tasks and imports explored
MaxRequests == 4

\* check_and_increment calls explored in the limiter's specification
MaxCalls == 4

\* last tick of the clock while campaigns run
MaxRunTick == 2

\* sweeps and campaign API requests explored
MaxSteps == 2

\* task messages published to the Celery queue
MaxJobs == 2

\* status requests and receipt tasks explored beside a running campaign
MaxReceipts == 2

\* clock resolution of the model: ticks per wall-clock second
TicksPerSecond == 2

-----------------------------------------------------------------------------
(* Generic helpers *)

Max(a, b) == IF a >= b THEN a ELSE b

RECURSIVE SumOver(_, _)
SumOver(f, S) ==
    IF S = {} THEN 0
    ELSE LET x == CHOOSE y \in S : TRUE IN f[x] + SumOver(f, S \ {x})

-----------------------------------------------------------------------------
(* Strings: sequences of one-character strings *)

\* Python's None
None == <<"<None>">>

Whitespace == {" ", "\n"}

Digits == {"0", "1", "2", "3", "4", "5", "6", "7", "8", "9"}

Uppers == <<"A", "B", "C", "D", "E", "F", "G", "H", "I", "J", "K", "L", "M",
            "N", "O", "P", "Q", "R", "S", "T", "U", "V", "W", "X", "Y", "Z">>

Lowers == <<"a", "b", "c", "d", "e", "f", "g", "h", "i", "j", "k", "l", "m",
            "n", "o", "p", "q", "r", "s", "t", "u", "v", "w", "x", "y", "z">>

LowerChar(ch) ==
    IF \E i \in 1..Len(Uppers) : Uppers[i] = ch
    THEN Lowers[CHOOSE i \in 1..Len(Uppers) : Uppers[i] = ch]
    ELSE ch

UpperChar(ch) ==
    IF \E i \in 1..Len(Lowers) : Lowers[i] = ch
    THEN Uppers[CHOOSE i \in 1..Len(Lowers) : Lowers[i] = ch]
    ELSE ch

\* str.lower(), str.upper()
Lower(s) == [i \in 1..Len(s) |-> LowerChar(s[i])]

Upper(s) == [i \in 1..Len(s) |-> UpperChar(s[i])]

RECURSIVE LStrip(_)
LStrip(s) == IF s # <<>> /\ Head(s) \in Whitespace THEN LStrip(Tail(s)) ELSE s

RECURSIVE RStrip(_)
RStrip(s) ==
    IF s # <<>> /\ s[Len(s)] \in Whitespace
    THEN RStrip(SubSeq(s, 1, Len(s) - 1))
    ELSE s

\* str.strip()
Strip(s) == RStrip(LStrip(s))

\* str.startswith(p)
StartsWith(s, p) == Len(s) >= Len(p) /\ SubSeq(s, 1, Len(p)) = p

\* the test "w in s" on strings
Contains(s, w) ==
    \E i \in 1..(Len(s) - Len(w) + 1) : SubSeq(s, i, i + Len(w) - 1) = w

\* the whole of s is + followed by a digit 1-9 and 1 to 14 further digits
StrictE164(s) ==
    /\ Len(s) >= 3
    /\ Len(s) <= 16
    /\ s[1] = "+"
    /\ s[2] \in Digits \ {"0"}
    /\ \A i \in 3..Len(s) : s[i] \in Digits

\* re.match(r"^\+[1-9]\d{1,14}$", s): $ also matches before a final newline
MatchesE164(s) ==
    \/ StrictE164(s)
    \/ /\ s # <<>>
       /\ s[Len(s)] = "\n"
       /\ StrictE164(SubSeq(s, 1, Len(s) - 1))

\* re.match(r"^[1-9]\d{1,14}$", s)
MatchesBareE164(s) == MatchesE164(<<"+">> \o s)

PrefixWhatsapp == <<"w", "h", "a", "t", "s", "a", "p", "p", ":">>

PrefixSms == <<"s", "m", "s", ":">>

PrefixMessenger == <<"m", "e", "s", "s", "e", "n", "g", "e", "r", ":">>

PrefixVoice == <<"v", "o", "i", "c", "e", ":">>

\* s[n:]
DropFirst(s, n) == SubSeq(s, n + 1, Len(s))

\* extract_channel_and_phone(phone_input) -> <<channel_type, normalized_phone>>
extract_channel_and_phone(phone_input) ==
    IF phone_input = None \/ phone_input = <<>> THEN <<None, None>>
    ELSE LET split ==
                 IF StartsWith(phone_input, PrefixWhatsapp)
                 THEN <<"whatsapp", DropFirst(phone_input, 9)>>
                 ELSE IF StartsWith(phone_input, PrefixSms)
                 THEN <<"sms", DropFirst(phone_input, 4)>>
                 ELSE IF StartsWith(phone_input, PrefixMessenger)
                 THEN <<"messenger", DropFirst(phone_input, 10)>>
                 ELSE IF StartsWith(phone_input, PrefixVoice)
                 THEN <<"voice", DropFirst(phone_input, 6)>>
                 ELSE <<"sms", phone_input>>
             phone == Strip(split[2])
         IN  IF StartsWith(phone, <<"+">>) /\ MatchesE164(phone)
             THEN <<split[1], phone>>
             ELSE IF MatchesBareE164(phone)
             THEN <<split[1], <<"+">> \o phone>>
             ELSE <<split[1], None>>

-----------------------------------------------------------------------------
(* Users and consent *)

\* ConsentState
ConsentStates == {"OPT_IN", "OPT_OUT", "STOP"}

\* merged_attributes = existing.copy(); merged_attributes.update(new)
MergeAttributes(old, new) ==
    [k \in DOMAIN old \cup DOMAIN new |->
        IF k \in DOMAIN new THEN new[k] ELSE old[k]]

\* User(phone, consent_state, attributes)
NewUser(consent, attributes) ==
    [consent_state |-> consent, attributes |-> attributes]

\* session.add(User(...)) or an update of the row with that key
PutUser(table, phone, row) ==
    [p \in DOMAIN table \cup {phone} |-> IF p = phone THEN row ELSE table[p]]

-----------------------------------------------------------------------------
(* Inbound webhook: app/main.py inbound_webhook *)

W14 == PrefixWhatsapp \o <<"+", "1", "4">>

\* request payloads of POST /webhooks/inbound explored
InboundPayloads ==
    { [From |-> W14, Body |-> <<"S", "T", "O", "P">>, ProfileName |-> "Al", WaId |-> "14"],
      [From |-> W14, Body |-> <<"o", "p", "t", "-", "o", "u", "t">>, ProfileName |-> "", WaId |-> ""],
      [From |-> W14, Body |-> <<"s", "t", "a", "r", "t">>, ProfileName |-> "", WaId |-> ""],
      [From |-> W14, Body |-> <<"r", "e", "s", "t", "a", "r", "t">>, ProfileName |-> "", WaId |-> ""],
      [From |-> W14, Body |-> <<"u", "n", "s", "t", "o", "p">>, ProfileName |-> "", WaId |-> ""],
      [From |-> <<"2", "5">>, Body |-> <<" ", "Y", "e", "s", "\n">>, ProfileName |-> "", WaId |-> ""],
      [From |-> <<"+", "2", "5">>, Body |-> <<"e", "n", "d">>, ProfileName |-> "", WaId |-> ""],
      [From |-> <<"+", "2", "5">>, Body |-> <<>>, ProfileName |-> "", WaId |-> ""],
      [From |-> PrefixSms \o <<"a", "b", "c">>, Body |-> <<"s", "t", "o", "p">>, ProfileName |-> "", WaId |-> ""],
      [From |-> <<>>, Body |-> <<"s", "t", "o", "p">>, ProfileName |-> "", WaId |-> ""] }

\* the keyword list of the fast STOP handling
StopKeywords ==
    { <<"s", "t", "o", "p">>,
      <<"s", "t", "o", "p", "a", "l", "l">>,
      <<"u", "n", "s", "u", "b", "s", "c", "r", "i", "b", "e">>,
      <<"c", "a", "n", "c", "e", "l">>,
      <<"e", "n", "d">>,
      <<"q", "u", "i", "t">>}

\* raw_data.get("Body", "").lower().strip()
NormalizeBody(body) == Strip(Lower(body))

\* the consent update of the inbound webhook for a normalized body
FastConsentUpdate(table, phone, body) ==
    IF body \in StopKeywords
    THEN IF phone \in DOMAIN table
         THEN [table EXCEPT ![phone].consent_state = "STOP"]
         ELSE PutUser(table, phone, NewUser("STOP", <<>>))
    ELSE table

\* InboundEvent(...) as built by the webhook
InboundEventRow(payload, channel, phone) ==
    [raw_payload |-> payload,
     from_phone |-> phone,
     channel_type |-> channel,
     normalized_body |-> IF payload.Body # <<>>
                         THEN Strip(Lower(payload.Body)) ELSE None,
     user_phone |-> None]

\* history: the n-th request or task, what it was given and what it answered
HttpResponse(endpoint, code, body, request) ==
    [seq |-> lastResponse.seq + 1, endpoint |-> endpoint, code |-> code,
     body |-> body, request |-> request]

NoResponse == [seq |-> 0, endpoint |-> "", code |-> 0, body |-> "", request |-> None]

\* a guard that lets every From through
RejectsNothing(phone) == FALSE

\* the data quality check: if not normalized_phone
RejectsPhone(phone) == phone = None

\* a session whose event insert is committed before the consent update
EventCommittedFirst(dbOk, payload, channel, phone) ==
    [inboundEvents |-> Append(inboundEvents, InboundEventRow(payload, channel, phone)),
     users |-> IF dbOk
               THEN FastConsentUpdate(users, phone, NormalizeBody(payload.Body))
               ELSE users]

\* the session of the inbound webhook: db.session.add(event), the STOP
\* update, then one db.session.commit(); a failure rolls the session back
InboundSession(dbOk, payload, channel, phone) ==
    IF dbOk
    THEN [inboundEvents |->
              Append(inboundEvents, InboundEventRow(payload, channel, phone)),
          users |-> FastConsentUpdate(users, phone, NormalizeBody(payload.Body))]
    ELSE [inboundEvents |-> inboundEvents, users |-> users]

\* POST /webhooks/inbound; dbOk = FALSE is a failing db.session.commit()
inbound_webhook(payload, dbOk) ==
    LET cp == extract_channel_and_phone(payload.From)
        phone == cp[2]
        session == InboundSession(dbOk, payload, cp[1], phone) IN
    /\ lastResponse.seq < MaxRequests
    /\ IF RejectsPhone(phone)
       THEN /\ lastResponse' = HttpResponse("inbound", 200, "empty", payload)
            /\ UNCHANGED <<users, inboundEvents>>
       ELSE /\ inboundEvents' = session.inboundEvents
            /\ users' = session.users
            /\ lastResponse' = HttpResponse("inbound", 200,
                                            IF dbOk THEN "received" ELSE "empty",
                                            payload)
    /\ UNCHANGED <<receipts, messages, handlers, limiterVars, orchVars>>

\* the web processes that serve POST /webhooks/inbound at the same time
Handlers == {"h1", "h2"}

NoPayload == [From |-> <<>>, Body |-> <<>>, ProfileName |-> "", WaId |-> ""]

\* found: what User.query.get(normalized_phone) returned to the request
IdleHandler == [pc |-> "idle", payload |-> NoPayload, found |-> FALSE]

\* the primary key of users: inserting a row for a phone that has one
\* raises IntegrityError
InsertConflicts(table, phone) == phone \in DOMAIN table

\* POST /webhooks/inbound up to the commit, for a From that normalizes:
\* the event is added to the session and, for a STOP body, the user is
\* looked up
InboundLookup(h, payload) ==
    LET phone == extract_channel_and_phone(payload.From)[2] IN
    /\ handlers[h].pc = "idle"
    /\ lastResponse.seq < MaxRequests
    /\ ~RejectsPhone(phone)
    /\ handlers' = [handlers EXCEPT ![h] =
          [pc |-> "commit", payload |-> payload,
           found |-> /\ NormalizeBody(payload.Body) \in StopKeywords
                     /\ phone \in DOMAIN users]]
    /\ UNCHANGED <<users, inboundEvents, receipts, messages, lastResponse,
                   limiterVars, orchVars>>

\* db.session.commit() of the request: the event INSERT and, for a STOP
\* body, the UPDATE of the user found or the INSERT of a new STOP user; an
\* IntegrityError rolls the session back and the request is answered 200
InboundCommit(h) ==
    LET payload == handlers[h].payload
        cp == extract_channel_and_phone(payload.From)
        phone == cp[2]
        stop == NormalizeBody(payload.Body) \in StopKeywords
        inserts == stop /\ ~handlers[h].found
        conflict == inserts /\ InsertConflicts(users, phone) IN
    /\ handlers[h].pc = "commit"
    /\ handlers' = [handlers EXCEPT ![h] = IdleHandler]
    /\ lastResponse' = HttpResponse("inbound", 200,
                                    IF conflict THEN "empty" ELSE "received", payload)
    /\ IF conflict
       THEN UNCHANGED <<users, inboundEvents>>
       ELSE /\ inboundEvents' =
                  Append(inboundEvents, InboundEventRow(payload, cp[1], phone))
            /\ users' = IF inserts THEN PutUser(users, phone, NewUser("STOP", <<>>))
                        ELSE IF stop /\ phone \in DOMAIN users
                        THEN [users EXCEPT ![phone].consent_state = "STOP"]
                        ELSE users
    /\ UNCHANGED <<receipts, messages, limiterVars, orchVars>>

----------
(* Asynchronous inbound processing: app/tasks/webhook_processor.py *)

LanguageWordsSi == {<<"s", "i", "n", "h", "a", "l", "a">>}

LanguageWordsTa == {<<"t", "a", "m", "i", "l">>}

LanguageWordsEn == {<<"e", "n", "g", "l", "i", "s", "h">>, <<"e", "n", "g">>}

\* the opt-in keyword list of process_message_intent
OptInKeywords ==
    { <<"s", "t", "a", "r", "t">>,
      <<"s", "u", "b", "s", "c", "r", "i", "b", "e">>,
      <<"j", "o", "i", "n">>,
      <<"y", "e", "s">>}

\* any(word in body_lower for word in words)
AnyWordIn(words, body_lower) == \E w \in words : Contains(body_lower, w)

\* the consent change of process_message_intent on an opt-in keyword
OptInConsent(consent) == IF consent = "OPT_OUT" THEN "OPT_IN" ELSE consent

\* process_message_intent(message_body, user) ->
\*   [consent_state: the user's consent afterwards, attributes: the dict
\*    returned, empty for None (the caller tests its truth value)]
process_message_intent(message_body, consent) ==
    IF message_body = <<>>
    THEN [consent_state |-> consent, attributes |-> <<>>]
    ELSE LET body_lower == Strip(Lower(message_body))
             language ==
                 IF AnyWordIn(LanguageWordsSi, body_lower) THEN ("language" :> "si")
                 ELSE IF AnyWordIn(LanguageWordsTa, body_lower) THEN ("language" :> "ta")
                 ELSE IF AnyWordIn(LanguageWordsEn, body_lower) THEN ("language" :> "en")
                 ELSE <<>>
         IN  [consent_state |-> IF AnyWordIn(OptInKeywords, body_lower)
                                THEN OptInConsent(consent) ELSE consent,
              attributes |-> MergeAttributes(language, ("last_message_at" :> now))]

\* the row of the sender after process_inbound_message
ProcessedUser(payload, phone) ==
    LET user == IF phone \in DOMAIN users THEN users[phone]
                ELSE NewUser("OPT_IN", <<>>)
        withProfile ==
            IF payload.ProfileName # ""
            THEN MergeAttributes(user.attributes,
                                 ("profile_name" :> payload.ProfileName))
            ELSE user.attributes
        withWaId ==
            IF payload.WaId # ""
            THEN MergeAttributes(withProfile, ("wa_id" :> payload.WaId))
            ELSE withProfile
        intent == process_message_intent(payload.Body, user.consent_state)
    IN  [consent_state |-> intent.consent_state,
         attributes |-> MergeAttributes(withWaId, intent.attributes)]

\* the Celery task process_inbound_message(event_id)
process_inbound_message(event_id, dbOk) ==
    LET event == inboundEvents[event_id]
        payload == event.raw_payload
        cp == extract_channel_and_phone(payload.From)
        phone == cp[2] IN
    /\ lastResponse.seq < MaxRequests
    /\ lastResponse' = HttpResponse("process_inbound_message", 0,
                                    IF dbOk THEN "committed" ELSE "rolled back",
                                    payload)
    /\ IF dbOk
       THEN /\ inboundEvents' = [inboundEvents EXCEPT ![event_id] =
                  [event EXCEPT !.from_phone = phone,
                                !.normalized_body = Strip(Lower(payload.Body)),
                                !.user_phone = phone]]
            /\ users' = PutUser(users, phone, ProcessedUser(payload, phone))
       ELSE UNCHANGED <<users, inboundEvents>>
    /\ UNCHANGED <<receipts, messages, handlers, limiterVars, orchVars>>

-----------------------------------------------------------------------------
(* Bulk import: app/runner/tasks.py bulk_ingest_users *)

\* files of user records explored; phone / consent None = the key is absent
ImportFiles ==
    { << [phone |-> <<"+", "1", "4">>, consent |-> None,
          attributes |-> ("name" :> "Al")] >>,
      << [phone |-> W14, consent |-> <<"s", "t", "o", "p">>,
          attributes |-> <<>>] >>,
      << [phone |-> <<"1", "4">>, consent |-> None, attributes |-> <<>>],
         [phone |-> <<" ", "+", "2", "5">>, consent |-> <<"O", "P", "T", "_", "O", "U", "T">>,
          attributes |-> ("name" :> "Bo") @@ ("city" :> "")] >>,
      << [phone |-> <<"+", "2", "5">>, consent |-> <<"m", "a", "y", "b", "e">>,
          attributes |-> ("name" :> "Cy")] >> }

\* re.sub(r"^(whatsapp:|sms:|messenger:|voice:)", "", s)
StripChannelPrefix(s) ==
    IF StartsWith(s, PrefixWhatsapp) THEN DropFirst(s, 9)
    ELSE IF StartsWith(s, PrefixSms) THEN DropFirst(s, 4)
    ELSE IF StartsWith(s, PrefixMessenger) THEN DropFirst(s, 10)
    ELSE IF StartsWith(s, PrefixVoice) THEN DropFirst(s, 6)
    ELSE s

\* ConsentState(consent_raw.upper()), OPT_IN when that is no member
ParseConsent(consent_raw) ==
    LET up == Upper(IF consent_raw = None
                    THEN <<"O", "P", "T", "_", "I", "N">> ELSE consent_raw) IN
    IF up = <<"O", "P", "T", "_", "I", "N">> THEN "OPT_IN"
    ELSE IF up = <<"O", "P", "T", "_", "O", "U", "T">> THEN "OPT_OUT"
    ELSE IF up = <<"S", "T", "O", "P">> THEN "STOP"
    ELSE "OPT_IN"

\* the record is rejected with ValueError
Rejected == [error |-> "ValueError"]

\* _process_user_record(record): the processed record, Rejected when the
\* record raises ValueError
process_user_record(record) ==
    IF record.phone = None \/ record.phone = <<>> THEN Rejected
    ELSE LET phone_cleaned == StripChannelPrefix(Strip(record.phone)) IN
         IF ~MatchesE164(phone_cleaned) THEN Rejected
         ELSE [phone_e164 |-> phone_cleaned,
               consent_state |-> ParseConsent(record.consent),
               attributes |-> [k \in {a \in DOMAIN record.attributes :
                                          record.attributes[a] # ""}
                               |-> record.attributes[k]]]

\* the consent written to an existing user by the upsert
UpsertConsent(existing, incoming) == incoming

\* _upsert_user(user_data) applied to a users table
upsert_user(table, user_data) ==
    LET phone == user_data.phone_e164 IN
    IF phone \in DOMAIN table
    THEN [table EXCEPT ![phone] =
            [consent_state |-> UpsertConsent(table[phone].consent_state,
                                             user_data.consent_state),
             attributes |-> MergeAttributes(table[phone].attributes,
                                            user_data.attributes)]]
    ELSE PutUser(table, phone, NewUser(user_data.consent_state, user_data.attributes))

\* the loop over the records of the file
RECURSIVE IngestRecords(_, _)
IngestRecords(table, records) ==
    IF records = <<>> THEN table
    ELSE LET processed == process_user_record(Head(records)) IN
         IngestRecords(IF processed = Rejected THEN table
                       ELSE upsert_user(table, processed),
                       Tail(records))

\* the Celery task bulk_ingest_users(file): one commit after the loop
bulk_ingest_users(file, dbOk) ==
    /\ lastResponse.seq < MaxRequests
    /\ lastResponse' = HttpResponse("bulk_ingest_users", 0,
                                    IF dbOk THEN "committed" ELSE "rolled back",
                                    file)
    /\ users' = IF dbOk THEN IngestRecords(users, file) ELSE users
    /\ UNCHANGED <<inboundEvents, receipts, messages, handlers, limiterVars, orchVars>>

-----------------------------------------------------------------------------
(* User API: app/api/v1/public_api.py create_user, app/api/v1/schemas.py *)

\* request bodies of POST /users explored
UserCreateBodies ==
    { [phone_e164 |-> <<"+", "1", "4">>, consent_state |-> "OPT_IN",
       attributes |-> ("name" :> "Al")],
      [phone_e164 |-> <<"+", "1", "4", "\n">>, consent_state |-> "STOP",
       attributes |-> ("name" :> "Zed")],
      [phone_e164 |-> <<"1", "4">>, consent_state |-> "OPT_IN",
       attributes |-> ("name" :> "Al")],
      [phone_e164 |-> <<" ", "+", "2", "5">>, consent_state |-> "OPT_IN",
       attributes |-> ("name" :> "Bo")],
      [phone_e164 |-> <<"+", "2", "5">>, consent_state |-> "OPT_OUT",
       attributes |-> ("city" :> "Rome")] }

\* String(16), Field(max_length=16)
MaxPhoneLength == 16

\* UserCreate(**request.json) raises no ValidationError: the field's
\* max_length and validate_phone_e164; the model does not strip the string
ValidUserCreate(body) ==
    /\ Len(body.phone_e164) <= MaxPhoneLength
    /\ MatchesE164(body.phone_e164)

\* POST /users
create_user(body, dbOk) ==
    /\ lastResponse.seq < MaxRequests
    /\ IF ~ValidUserCreate(body)
       THEN /\ lastResponse' = HttpResponse("create_user", 400, "Validation Error", body)
            /\ UNCHANGED users
       ELSE IF body.phone_e164 \in DOMAIN users
       THEN /\ lastResponse' = HttpResponse("create_user", 409, "Conflict", body)
            /\ UNCHANGED users
       ELSE IF ~dbOk
       THEN /\ lastResponse' = HttpResponse("create_user", 500, "Internal Server Error", body)
            /\ UNCHANGED users
       ELSE /\ lastResponse' = HttpResponse("create_user", 201, "created", body)
            /\ users' = PutUser(users, body.phone_e164,
                                NewUser(body.consent_state, body.attributes))
    /\ UNCHANGED <<inboundEvents, receipts, messages, handlers, limiterVars, orchVars>>

-----------------------------------------------------------------------------
(* Status webhook and receipt processing *)

\* MessageStatus
MessageStatuses ==
    {"QUEUED", "SENDING", "SENT", "DELIVERED", "READ", "FAILED", "UNDELIVERED"}

\* NULL in an integer or timestamp column
Null == -1

\* the sid Twilio gives the n-th message it accepts
Sid(n) == <<"S", "M", <<"1", "2", "3", "4", "5", "6", "7", "8", "9">>[n]>>

\* request payloads of POST /webhooks/status explored
StatusPayloads ==
    { [MessageSid |-> Sid(1), MessageStatus |-> <<"d", "e", "l", "i", "v", "e", "r", "e", "d">>,
       ErrorCode |-> <<>>],
      [MessageSid |-> Sid(1), MessageStatus |-> <<"s", "e", "n", "t">>, ErrorCode |-> <<>>],
      [MessageSid |-> Sid(1), MessageStatus |-> <<"R", "e", "a", "d">>, ErrorCode |-> <<>>],
      [MessageSid |-> Sid(1), MessageStatus |-> <<"q", "u", "e", "u", "e", "d">>,
       ErrorCode |-> <<>>],
      [MessageSid |-> Sid(1), MessageStatus |-> <<"s", "e", "n", "d", "i", "n", "g">>,
       ErrorCode |-> <<>>],
      [MessageSid |-> Sid(1), MessageStatus |-> <<"f", "a", "i", "l", "e", "d">>,
       ErrorCode |-> <<"3", "0">>],
      [MessageSid |-> Sid(2), MessageStatus |-> <<"u", "n", "d", "e", "l", "i", "v", "e", "r", "e", "d">>,
       ErrorCode |-> <<"3", "1">>],
      [MessageSid |-> Sid(2), MessageStatus |-> <<"a", "c", "c", "e", "p", "t", "e", "d">>,
       ErrorCode |-> <<"x">>],
      [MessageSid |-> Sid(9), MessageStatus |-> <<"s", "e", "n", "t">>, ErrorCode |-> <<>>] }

\* int(s) succeeds
IsInt(s) == s # <<>> /\ \A i \in 1..Len(s) : s[i] \in Digits

DigitValue(ch) == CHOOSE n \in 0..9 : <<"0", "1", "2", "3", "4", "5", "6", "7", "8", "9">>[n + 1] = ch

\* int(s)
RECURSIVE ParseInt(_)
ParseInt(s) ==
    IF s = <<>> THEN 0
    ELSE 10 * ParseInt(SubSeq(s, 1, Len(s) - 1)) + DigitValue(s[Len(s)])

\* POST /webhooks/status; dbOk = FALSE is a failing db.session.commit()
status_webhook(payload, dbOk) ==
    /\ lastResponse.seq < MaxRequests
    /\ IF (payload.ErrorCode # <<>> /\ ~IsInt(payload.ErrorCode)) \/ ~dbOk
       THEN /\ lastResponse' = HttpResponse("status", 500, "error", payload)
            /\ UNCHANGED receipts
       ELSE /\ receipts' = Append(receipts,
                  [raw_payload |-> payload,
                   message_sid |-> payload.MessageSid,
                   message_status |-> payload.MessageStatus,
                   error_code |-> IF payload.ErrorCode # <<>>
                                  THEN ParseInt(payload.ErrorCode) ELSE Null,
                   message_id |-> Null,
                   user_phone |-> None])
            /\ lastResponse' = HttpResponse("status", 200, "received", payload)
    /\ UNCHANGED <<users, inboundEvents, messages, handlers, limiterVars, orchVars>>

\* map_twilio_status_to_message_status(twilio_status)
map_twilio_status_to_message_status(twilio_status) ==
    LET st == Lower(twilio_status) IN
    IF st = <<"q", "u", "e", "u", "e", "d">> THEN "QUEUED"
    ELSE IF st = <<"s", "e", "n", "d", "i", "n", "g">> THEN "SENDING"
    ELSE IF st = <<"s", "e", "n", "t">> THEN "SENT"
    ELSE IF st = <<"d", "e", "l", "i", "v", "e", "r", "e", "d">> THEN "DELIVERED"
    ELSE IF st = <<"r", "e", "a", "d">> THEN "READ"
    ELSE IF st = <<"f", "a", "i", "l", "e", "d">> THEN "FAILED"
    ELSE IF st = <<"u", "n", "d", "e", "l", "i", "v", "e", "r", "e", "d">> THEN "UNDELIVERED"
    ELSE "FAILED"

\* the status a receipt writes to a Message whose status is old_status
ReceiptStatus(old_status, twilio_status) ==
    map_twilio_status_to_message_status(twilio_status)

\* Message.query.filter_by(provider_sid=message_sid).first()
FindMessageBySid(sid) ==
    IF \E i \in 1..Len(messages) : messages[i].provider_sid = sid
    THEN CHOOSE i \in 1..Len(messages) : messages[i].provider_sid = sid
    ELSE 0

\* a receipt application that stamps the time of every receipt
StampEveryReceipt(message, payload) ==
    LET new_status == ReceiptStatus(message.status, payload.MessageStatus) IN
    [message EXCEPT
        !.status = new_status,
        !.sent_at = IF new_status = "SENT" THEN now ELSE @,
        !.delivered_at = IF new_status = "DELIVERED" THEN now ELSE @,
        !.error_code = IF payload.ErrorCode # <<>>
                       THEN ParseInt(payload.ErrorCode) ELSE @]

\* the Message row after the receipt is applied
ApplyReceipt(message, payload) ==
    LET new_status == ReceiptStatus(message.status, payload.MessageStatus) IN
    [message EXCEPT
        !.status = new_status,
        !.sent_at = IF new_status = "SENT" /\ message.status # "SENT"
                    THEN now ELSE @,
        !.delivered_at = IF new_status = "DELIVERED" /\ message.status # "DELIVERED"
                         THEN now ELSE @,
        !.error_code = IF payload.ErrorCode # <<>>
                       THEN ParseInt(payload.ErrorCode) ELSE @]

\* the Celery task process_status_callback(receipt_id); an ErrorCode that
\* int() rejects, or a failing commit, rolls everything back
process_status_callback(receipt_id, dbOk) ==
    LET receipt == receipts[receipt_id]
        payload == receipt.raw_payload
        m == FindMessageBySid(payload.MessageSid)
        failed == \/ ~dbOk
                  \/ m # 0 /\ payload.ErrorCode # <<>> /\ ~IsInt(payload.ErrorCode) IN
    /\ lastResponse.seq < MaxRequests
    /\ lastResponse' = HttpResponse("process_status_callback", 0,
                                    IF failed THEN "rolled back"
                                    ELSE IF m = 0 THEN "unmatched" ELSE "committed",
                                    payload)
    /\ IF m = 0 \/ failed
       THEN UNCHANGED <<messages, receipts>>
       ELSE /\ messages' = [messages EXCEPT ![m] = ApplyReceipt(messages[m], payload)]
            /\ receipts' = [receipts EXCEPT ![receipt_id].message_id = m,
                                            ![receipt_id].user_phone = messages[m].phone]
    /\ UNCHANGED <<users, inboundEvents, handlers, limiterVars, orchVars>>

-----------------------------------------------------------------------------
(* Campaign configuration *)

Campaigns == {1, 2}

\* Campaign.rate_limit_per_second (schemas.py: ge=1)
RateLimit == [c \in Campaigns |-> c]

-----------------------------------------------------------------------------
(* Rate limiter: app/core/rate_limiter.py *)

Callers == {"p1", "p2"}

\* pipe.expire(rate_key, 2)
TTL == 2

\* int(datetime.utcnow().timestamp())
CurrentSecond == now \div TicksPerSecond

\* f"campaign:{campaign_id}:rate_limit:{current_second}"
RateKey(c, s) == <<c, s>>

\* GET of a key: its counter, 0 when the key is absent or has expired
GetCount(k) == IF k \in DOMAIN redis THEN redis[k].count ELSE 0

IdleCaller == [pc |-> "idle", campaign |-> 0, second |-> 0, dirty |-> FALSE]

\* history: one more call admitted for key <<c, s>> at the current tick
Admit(c, s) ==
    LET h == <<c, s, now>> IN
    IF h \in DOMAIN admissions
    THEN [admissions EXCEPT ![h] = @ + 1]
    ELSE admissions @@ (h :> 1)

\* check_and_increment entered: the key is built from the caller's clock
CallStart(p, c) ==
    /\ callers[p].pc = "idle"
    /\ ncalls < MaxCalls
    /\ ncalls' = ncalls + 1
    /\ callers' = [callers EXCEPT ![p] =
           [IdleCaller EXCEPT !.pc = "watch", !.campaign = c,
                              !.second = CurrentSecond]]
    /\ UNCHANGED <<now, redis, admissions, storeVars, orchVars>>

\* the limit check on the count read under WATCH
LimitReached(count, limit) == count >= limit

\* the tuple check_and_increment returns (allowed, current_count, remaining);
\* how is "returned", or "store_error" when the except branch produced it
Return(allowed, count, remaining, how) ==
    [allowed |-> allowed, count |-> count, remaining |-> remaining, how |-> how]

FailClosedReturn(limit) == Return(FALSE, 0, 0, "store_error")

\* except Exception: the error is printed and the call returns
\* True, 0, rate_limit
FailOpenReturn(limit) == Return(TRUE, 0, limit, "store_error")

\* check_and_increment as one step, as its caller sees it: the tuple returned
\* for campaign c; redisOk = FALSE is a Redis command that raises
check_and_increment(c, redisOk) ==
    LET count == GetCount(RateKey(c, CurrentSecond))
        limit == RateLimit[c] IN
    IF ~redisOk THEN FailOpenReturn(limit)
    ELSE IF LimitReached(count, limit) THEN Return(FALSE, count, 0, "returned")
    ELSE Return(TRUE, count + 1, Max(0, limit - (count + 1)), "returned")

\* pipe.watch(rate_key); pipe.get(rate_key); the early return on the limit
CallWatchGet(p) ==
    LET me == callers[p]
        count == GetCount(RateKey(me.campaign, me.second)) IN
    /\ me.pc = "watch"
    /\ IF LimitReached(count, RateLimit[me.campaign])
       THEN callers' = [callers EXCEPT ![p] = IdleCaller]
       ELSE callers' = [callers EXCEPT ![p].pc = "exec", ![p].dirty = FALSE]
    /\ UNCHANGED <<now, redis, ncalls, admissions, storeVars, orchVars>>

\* EXEC aborts (WatchError) iff the watched key changed since WATCH
WatchFails(p) == callers[p].dirty

\* pipe.multi(); pipe.incr; pipe.expire; pipe.execute(); on WatchError the
\* function calls itself again.
CallExec(p) ==
    LET me == callers[p]
        k == RateKey(me.campaign, me.second) IN
    /\ me.pc = "exec"
    /\ IF WatchFails(p)
       THEN /\ callers' = [callers EXCEPT ![p].pc = "retry", ![p].dirty = FALSE]
            /\ UNCHANGED <<redis, admissions>>
       ELSE /\ redis' = [kk \in DOMAIN redis \cup {k} |->
                           IF kk = k
                           THEN [count |-> GetCount(k) + 1,
                                 expireAt |-> now + TTL * TicksPerSecond]
                           ELSE redis[kk]]
            /\ admissions' = Admit(me.campaign, me.second)
            /\ callers' = [q \in Callers |->
                  IF q = p THEN IdleCaller
                  ELSE IF /\ callers[q].pc = "exec"
                          /\ RateKey(callers[q].campaign, callers[q].second) = k
                       THEN [callers[q] EXCEPT !.dirty = TRUE]
                       ELSE callers[q]]
    /\ UNCHANGED <<now, ncalls, storeVars, orchVars>>

\* a Redis command of the call raises: the except Exception branch returns
\* allowed=True; nothing is counted
CallStoreError(p) ==
    /\ callers[p].pc \in {"watch", "exec"}
    /\ callers' = [callers EXCEPT ![p] = IdleCaller]
    /\ UNCHANGED <<now, redis, ncalls, admissions, storeVars, orchVars>>

\* the recursive call after WatchError reads the clock again
CallRetry(p) ==
    /\ callers[p].pc = "retry"
    /\ callers' = [callers EXCEPT ![p].pc = "watch", ![p].second = CurrentSecond]
    /\ UNCHANGED <<now, redis, ncalls, admissions, storeVars, orchVars>>

\* Time passes. Keys whose TTL has run out are evicted by Redis; whether the
\* eviction of a watched key aborts the watcher's EXEC depends on the Redis
\* version, so both outcomes are allowed.
Tick ==
    /\ now < MaxTick
    /\ now' = now + 1
    /\ LET gone == {k \in DOMAIN redis : redis[k].expireAt <= now + 1} IN
       /\ redis' = [k \in DOMAIN redis \ gone |-> redis[k]]
       /\ \E touch \in BOOLEAN :
             callers' = [q \in Callers |->
                 IF /\ callers[q].pc = "exec"
                    /\ RateKey(callers[q].campaign, callers[q].second) \in gone
                    /\ touch
                 THEN [callers[q] EXCEPT !.dirty = TRUE]
                 ELSE callers[q]]
    /\ UNCHANGED <<ncalls, admissions, storeVars, orchVars>>

-----------------------------------------------------------------------------
(* Campaign orchestration: app/runner/tasks.py, app/api/v1/public_api.py *)

\* CampaignStatusEnum: the values the update API accepts
Statuses == {"DRAFT", "READY", "RUNNING", "COMPLETED", "PAUSED"}

Workers == {"w1", "w2"}

Sweepers == {"b1", "b2"}

ApiClients == {"a1"}

\* @celery_app.task(bind=True, max_retries=3)
max_retries == 3

\* Campaign.quiet_hours_start / quiet_hours_end, None when not configured;
\* the time of day is counted in ticks
QuietHours == [c \in Campaigns |-> IF c = 2 THEN <<5, 1>> ELSE None]

\* placeholders of the campaign's template content
TemplatePlaceholders == [c \in Campaigns |-> IF c = 1 THEN {"name"} ELSE {"city"}]

\* whether the campaign has a segment; campaign 2 has one
HasSegment == [c \in Campaigns |-> c = 2]

\* Segment.definition_json of the segment of campaign 2
SegmentDefinition == [attribute |-> "tier", operator |-> "equals", value |-> "vip"]

RECURSIVE SetToSeq(_)
SetToSeq(S) ==
    IF S = {} THEN <<>>
    ELSE LET x == CHOOSE y \in S : TRUE IN <<x>> \o SetToSeq(S \ {x})

RunJob(c, r) == [task |-> "run_campaign_task", campaign |-> c, retries |-> r]

TriggerJob(c) == [task |-> "trigger_campaign_execution", campaign |-> c, retries |-> 0]

\* task.delay(...) / self.retry(...): the message is published
Enqueue(q, j) == q (+) SetToBag({j})

Dequeue(q, j) == q (-) SetToBag({j})

\* results of the last recipient processed: what the limiter answered and
\* which counter of results the recipient went to
NoOutcome == [limiter |-> "none", outcome |-> "none"]

IdleWorker ==
    [pc |-> "idle", campaign |-> 0, retries |-> 0, recipients |-> <<>>, idx |-> 0,
     last |-> NoOutcome, errors |-> 0, accounted |-> 0, send |-> "none",
     consents |-> <<>>, expired |-> FALSE]

IdleSweeper == [pc |-> "idle", ready |-> <<>>, periods |-> <<>>]

\* dry_runs: history, the dry runs this client was answered 200 for
IdleApi == [pc |-> "idle", campaign |-> 0, dry_runs |-> 0]

\* campaign.status = new; db.session.commit().  The write is unconditional.
\* History: a campaign that enters READY starts a new READY period.
SetStatus(c, new) ==
    /\ campaignStatus' = [campaignStatus EXCEPT ![c] = new]
    /\ dispatches' =
          IF new = "READY" /\ campaignStatus[c] # "READY"
          THEN [dispatches EXCEPT ![c] = [period |-> @.period + 1, count |-> 0]]
          ELSE dispatches

\* Campaign.schedule_time in ticks, Null when unset
ScheduleTime == [c \in Campaigns |-> IF c = 1 THEN 1 ELSE Null]

\* a query without the schedule_time filter
AlwaysDue(c) == TRUE

\* db.or_(Campaign.schedule_time.is_(None), Campaign.schedule_time <= now)
Due(c) == ScheduleTime[c] = Null \/ ScheduleTime[c] <= now

\* check_scheduled_campaigns: the query for the READY campaigns that are due
SweepQuery(b) ==
    /\ sweepers[b].pc = "idle"
    /\ nsteps < MaxSteps
    /\ nsteps' = nsteps + 1
    /\ LET ready == SetToSeq({c \in Campaigns :
                                 campaignStatus[c] = "READY" /\ Due(c)}) IN
       sweepers' = [sweepers EXCEPT ![b] =
          [pc |-> IF ready = <<>> THEN "idle" ELSE "enqueue",
           ready |-> ready,
           periods |-> [c \in Campaigns |-> dispatches[c].period]]]
    /\ UNCHANGED <<campaignStatus, jobs, workers, apiCalls, nenq, dispatches,
                   storeVars, limiterVars>>

\* check_scheduled_campaigns: run_campaign_task.delay(campaign.id) for the
\* next campaign of the query's result
SweepEnqueue(b) ==
    LET me == sweepers[b]
        c == Head(me.ready) IN
    /\ me.pc = "enqueue"
    /\ nenq < MaxJobs
    /\ nenq' = nenq + 1
    /\ jobs' = Enqueue(jobs, RunJob(c, 0))
    /\ dispatches' = IF me.periods[c] = dispatches[c].period
                     THEN [dispatches EXCEPT ![c].count = @ + 1]
                     ELSE dispatches
    /\ sweepers' = [sweepers EXCEPT ![b].pc = "commit"]
    /\ UNCHANGED <<campaignStatus, workers, apiCalls, nsteps, storeVars, limiterVars>>

\* check_scheduled_campaigns: campaign.status = "RUNNING"; commit; next
\* campaign of the loop
SweepCommit(b) ==
    LET me == sweepers[b] IN
    /\ me.pc = "commit"
    /\ SetStatus(Head(me.ready), "RUNNING")
    /\ sweepers' = [sweepers EXCEPT ![b] =
          IF Tail(me.ready) = <<>> THEN IdleSweeper
          ELSE [me EXCEPT !.pc = "enqueue", !.ready = Tail(me.ready)]]
    /\ UNCHANGED <<jobs, workers, apiCalls, nsteps, nenq, storeVars, limiterVars>>

\* a trigger that dispatches whatever dry_run says
AlwaysDispatches(dry_run) == TRUE

\* if not trigger_data.dry_run: the request queues the execution
Dispatches(dry_run) == ~dry_run

\* POST /campaigns/<id>/trigger up to trigger_campaign_execution.delay();
\* a dry run only commits updated_at
TriggerApiStart(a, c, dry_run) ==
    /\ apiCalls[a].pc = "idle"
    /\ nsteps < MaxSteps
    /\ nsteps' = nsteps + 1
    /\ IF campaignStatus[c] \notin {"READY", "DRAFT"}
       THEN UNCHANGED <<jobs, nenq, apiCalls>>
       ELSE IF ~Dispatches(dry_run)
       THEN /\ apiCalls' = [apiCalls EXCEPT ![a].dry_runs = @ + 1]
            /\ UNCHANGED <<jobs, nenq>>
       ELSE /\ nenq < MaxJobs
            /\ nenq' = nenq + 1
            /\ jobs' = Enqueue(jobs, TriggerJob(c))
            /\ apiCalls' = [apiCalls EXCEPT ![a] =
                  [@ EXCEPT !.pc = "commit", !.campaign = c,
                            !.dry_runs = IF dry_run THEN @ + 1 ELSE @]]
    /\ UNCHANGED <<campaignStatus, workers, sweepers, dispatches, storeVars, limiterVars>>

\* POST /campaigns/<id>/trigger: campaign.status = "RUNNING"; commit
TriggerApiCommit(a) ==
    /\ apiCalls[a].pc = "commit"
    /\ SetStatus(apiCalls[a].campaign, "RUNNING")
    /\ apiCalls' = [apiCalls EXCEPT ![a] = [@ EXCEPT !.pc = "idle", !.campaign = 0]]
    /\ UNCHANGED <<jobs, workers, sweepers, nsteps, nenq, storeVars, limiterVars>>

\* PUT /campaigns/<id> with a status
update_campaign(c, status) ==
    /\ nsteps < MaxSteps
    /\ nsteps' = nsteps + 1
    /\ SetStatus(c, status)
    /\ UNCHANGED <<jobs, workers, sweepers, apiCalls, nenq, storeVars, limiterVars>>

\* the Celery task trigger_campaign_execution(campaign_id)
trigger_campaign_execution(w, j) ==
    /\ workers[w].pc = "idle"
    /\ j \in BagToSet(jobs)
    /\ j.task = "trigger_campaign_execution"
    /\ IF campaignStatus[j.campaign] \notin {"READY", "DRAFT"}
       THEN /\ jobs' = Dequeue(jobs, j)
            /\ UNCHANGED <<campaignStatus, dispatches, nenq>>
       ELSE /\ nenq < MaxJobs
            /\ nenq' = nenq + 1
            /\ SetStatus(j.campaign, "RUNNING")
            /\ jobs' = Enqueue(Dequeue(jobs, j), RunJob(j.campaign, 0))
    /\ UNCHANGED <<workers, sweepers, apiCalls, nsteps, storeVars, limiterVars>>

\* resolve_campaign_recipients(campaign): the OPT_IN users without a
\* segment, else the users the segment's attribute filter selects
resolve_campaign_recipients(c) ==
    IF ~HasSegment[c]
    THEN SetToSeq({ph \in DOMAIN users : users[ph].consent_state = "OPT_IN"})
    ELSE LET d == SegmentDefinition IN
         IF d.attribute = "consent_state"
         THEN IF d.operator = "equals"
              THEN SetToSeq({ph \in DOMAIN users : users[ph].consent_state = d.value})
              ELSE SetToSeq(DOMAIN users)
         ELSE IF d.operator = "equals"
         THEN SetToSeq({ph \in DOMAIN users :
                          /\ d.attribute \in DOMAIN users[ph].attributes
                          /\ users[ph].attributes[d.attribute] = d.value})
         ELSE SetToSeq(DOMAIN users)

\* a loop without the consent check
NoConsentGate(consent_state) == FALSE

\* the consent check of the loop: user.consent_state != ConsentState.OPT_IN
ConsentGate(consent_state) == consent_state # "OPT_IN"

\* is_in_quiet_hours(campaign, user)
is_in_quiet_hours(c) ==
    IF QuietHours[c] = None THEN FALSE
    ELSE LET start_time == QuietHours[c][1]
             end_time == QuietHours[c][2] IN
         IF start_time > end_time
         THEN now >= start_time \/ now <= end_time
         ELSE start_time <= now /\ now <= end_time

\* a rendering that fills missing placeholders with nothing
RendersAnything(c, attributes) == TRUE

\* render_message_template raises no ValueError
CanRender(c, attributes) ==
    \A ph \in TemplatePlaceholders[c] :
        ph \in DOMAIN attributes /\ attributes[ph] # ""

\* the consent_state of the User objects that .all() loaded into the session
LoadedConsents(recipients) ==
    [i \in 1..Len(recipients) |-> users[recipients[i]].consent_state]

\* user.consent_state as the worker's session sees it: the value loaded with
\* the recipient list until a commit or rollback of the session has expired
\* the loaded objects, the row's value after that
SessionConsent(me, row) ==
    IF me.expired THEN row.consent_state ELSE me.consents[me.idx]

\* run_campaign_task starts: the campaign is loaded, its status checked and
\* the recipients resolved
RunStart(w, j) ==
    /\ workers[w].pc = "idle"
    /\ j \in BagToSet(jobs)
    /\ j.task = "run_campaign_task"
    /\ jobs' = Dequeue(jobs, j)
    /\ workers' = [workers EXCEPT ![w] =
          IF campaignStatus[j.campaign] # "RUNNING"
          THEN [IdleWorker EXCEPT !.pc = "failed", !.campaign = j.campaign,
                                  !.retries = j.retries]
          ELSE [pc |-> "loop", campaign |-> j.campaign, retries |-> j.retries,
                recipients |-> resolve_campaign_recipients(j.campaign),
                idx |-> 1, last |-> NoOutcome, errors |-> 0, accounted |-> 0,
                send |-> "none",
                consents |-> LoadedConsents(resolve_campaign_recipients(j.campaign)),
                expired |-> FALSE]]
    /\ UNCHANGED <<campaignStatus, sweepers, apiCalls, nsteps, nenq, dispatches,
                   storeVars, limiterVars>>

\* the Message row of a recipient after the Twilio call: sid is the provider's
\* message id, at the time of the call
NewMessage(c, phone, attributes, sendOk, sid, at) ==
    [campaign_id |-> c,
     phone |-> phone,
     rendered_content |-> [ph \in TemplatePlaceholders[c] |-> attributes[ph]],
     status |-> IF sendOk THEN "SENT" ELSE "FAILED",
     provider_sid |-> IF sendOk THEN sid ELSE None,
     sent_at |-> IF sendOk THEN at ELSE Null,
     delivered_at |-> Null,
     error_code |-> IF sendOk THEN Null ELSE 21]

\* the Message row committed for a recipient
MessageRow(c, phone, sendOk) ==
    NewMessage(c, phone, users[phone].attributes, sendOk, Sid(Len(messages) + 1), now)

\* whether a Message is created for (campaign, phone) given the rows stored
CreatesMessage(c, phone) == TRUE

\* the outcomes that append an entry to results["errors"]
RecordedErrors == {"missing_template_data", "failed", "error"}

\* a loop in which an exception of one recipient ends the run
AbortOnError(me, limiter, outcome) ==
    IF outcome = "error"
    THEN [me EXCEPT !.pc = "failed",
                    !.last = [limiter |-> limiter, outcome |-> outcome]]
    ELSE [me EXCEPT !.idx = @ + 1,
                    !.last = [limiter |-> limiter, outcome |-> outcome],
                    !.errors = IF outcome \in RecordedErrors THEN @ + 1 ELSE @]

\* the worker after one recipient, whatever became of it: the inner except
\* rolls back, appends to results["errors"] and continues with the next one
NextPosition(me, limiter, outcome) ==
    [me EXCEPT !.idx = @ + 1,
               !.last = [limiter |-> limiter, outcome |-> outcome],
               !.errors = IF outcome \in RecordedErrors THEN @ + 1 ELSE @]

\* the counters of results one iteration adds 1 to; "error" is the inner
\* except.  self.retry() raises inside the inner try, after rate_limit was
\* counted; the commit fails after the send was counted.
IncrementedCounters(outcome, retried, sendOk) ==
    IF outcome = "rate_limit"
    THEN IF retried THEN {"rate_limit", "error"} ELSE {"rate_limit"}
    ELSE IF outcome = "error"
    THEN {IF sendOk THEN "messages_sent" ELSE "messages_failed", "error"}
    ELSE IF outcome = "sent" THEN {"messages_sent"}
    ELSE IF outcome = "failed" THEN {"messages_failed"}
    ELSE {outcome}

\* history: accounted is the sum of the outcome counters of results, errors
\* the length of results["errors"], send what twilio_service.send_message
\* returned for the recipient ("none": it was not called).  expired: the
\* iteration committed (after a send) or rolled back (the inner except).
Account(me, counters, retried, send) ==
    [me EXCEPT !.accounted = @ + Cardinality(counters),
               !.errors = IF retried THEN @ + 1 ELSE @,
               !.send = send,
               !.expired = @ \/ retried \/ send # "none"]

\* what TwilioService.send_message returns: success, the failure built from
\* a TwilioRestException (error_code str(e.code)), the failure built from
\* any other exception (error_code "UNKNOWN_ERROR")
SendResults == {"sent", "rest_error", "unexpected"}

\* the commit stores message.error_code in the Integer column: a string of
\* digits is taken, "UNKNOWN_ERROR" raises DataError
StoresErrorCode(send) == send # "unexpected"

\* run_campaign_task: one iteration of the loop over the recipients.
\* redisOk is the outcome of the limiter's Redis commands, send the answer
\* of the Twilio adapter, dbOk whether the database takes the commit.
ProcessRecipient(w, redisOk, send, dbOk) ==
    LET me == workers[w]
        sendOk == send = "sent"
        committed == dbOk /\ StoresErrorCode(send)
        c == me.campaign
        phone == me.recipients[me.idx]
        user == users[phone]
        k == RateKey(c, CurrentSecond)
        consent_state == SessionConsent(me, user)
        gated == \/ ConsentGate(consent_state)
                 \/ is_in_quiet_hours(c)
        rate == check_and_increment(c, redisOk)
        limited == ~gated /\ ~rate.allowed
        counted == ~gated /\ rate.allowed /\ rate.how = "returned"
        retried == limited /\ me.retries < max_retries
        creates == /\ ~gated /\ ~limited
                   /\ CanRender(c, user.attributes) /\ CreatesMessage(c, phone)
        outcome == IF ConsentGate(consent_state) THEN "opt_out"
                   ELSE IF is_in_quiet_hours(c) THEN "quiet_hours"
                   ELSE IF limited THEN "rate_limit"
                   ELSE IF ~CanRender(c, user.attributes) THEN "missing_template_data"
                   ELSE IF ~committed THEN "error"
                   ELSE IF sendOk THEN "sent" ELSE "failed" IN
    /\ me.pc = "loop"
    /\ me.idx <= Len(me.recipients)
    /\ retried => nenq < MaxJobs
    /\ nenq' = IF retried THEN nenq + 1 ELSE nenq
    /\ jobs' = IF retried THEN Enqueue(jobs, RunJob(c, me.retries + 1)) ELSE jobs
    /\ IF counted
       THEN /\ redis' = [kk \in DOMAIN redis \cup {k} |->
                           IF kk = k
                           THEN [count |-> rate.count,
                                 expireAt |-> now + TTL * TicksPerSecond]
                           ELSE redis[kk]]
            /\ admissions' = Admit(c, CurrentSecond)
       ELSE UNCHANGED <<redis, admissions>>
    /\ messages' = IF creates /\ committed
                   THEN Append(messages, MessageRow(c, phone, sendOk))
                   ELSE messages
    /\ workers' = [workers EXCEPT ![w] =
          Account(NextPosition(me, IF gated THEN "none" ELSE rate.how, outcome),
                  IncrementedCounters(outcome, retried, sendOk), retried,
                  IF creates THEN send ELSE "none")]
    /\ UNCHANGED <<campaignStatus, sweepers, apiCalls, nsteps, dispatches,
                   users, inboundEvents, receipts, lastResponse, handlers,
                   now, callers, ncalls>>

\* run_campaign_task after the loop: campaign.status = "COMPLETED"; commit
RunComplete(w) ==
    LET me == workers[w] IN
    /\ me.pc = "loop"
    /\ me.idx > Len(me.recipients)
    /\ SetStatus(me.campaign, "COMPLETED")
    /\ workers' = [workers EXCEPT ![w] = IdleWorker]
    /\ UNCHANGED <<jobs, sweepers, apiCalls, nsteps, nenq, storeVars, limiterVars>>

\* run_campaign_task's outer except: campaign.status = "READY"; commit;
\* self.retry(countdown=300) while retries are left
RunFailed(w) ==
    LET me == workers[w]
        retried == me.retries < max_retries IN
    /\ me.pc = "failed"
    /\ retried => nenq < MaxJobs
    /\ nenq' = IF retried THEN nenq + 1 ELSE nenq
    /\ jobs' = IF retried THEN Enqueue(jobs, RunJob(me.campaign, me.retries + 1))
               ELSE jobs
    /\ SetStatus(me.campaign, "READY")
    /\ workers' = [workers EXCEPT ![w] = IdleWorker]
    /\ UNCHANGED <<sweepers, apiCalls, nsteps, storeVars, limiterVars>>

\* time passes while campaigns run
RunTick ==
    /\ now < MaxRunTick
    /\ Tick

\* users present when campaigns run
CampaignUsers ==
    (<<"+", "1", "4">> :> NewUser("OPT_IN", ("name" :> "Al")))
    @@ (<<"+", "2", "5">> :> NewUser("OPT_IN", ("name" :> "Bo") @@ ("tier" :> "vip")))
    @@ (<<"+", "3", "6">> :> NewUser("STOP", ("tier" :> "vip")))

\* no rows in the users, events, receipts and messages tables
EmptyStore ==
    /\ users = <<>>
    /\ inboundEvents = <<>>
    /\ receipts = <<>>
    /\ messages = <<>>
    /\ lastResponse = NoResponse
    /\ handlers = [h \in Handlers |-> IdleHandler]

\* the clock at 0, no rate-limit key, no limiter call in flight
IdleLimiter ==
    /\ now = 0
    /\ redis = <<>>
    /\ callers = [p \in Callers |-> IdleCaller]
    /\ ncalls = 0
    /\ admissions = <<>>

\* campaign 1 READY, campaign 2 DRAFT, nothing queued or executing
IdleOrchestrator ==
    /\ campaignStatus = [c \in Campaigns |-> IF c = 1 THEN "READY" ELSE "DRAFT"]
    /\ jobs = EmptyBag
    /\ workers = [w \in Workers |-> IdleWorker]
    /\ sweepers = [b \in Sweepers |-> IdleSweeper]
    /\ apiCalls = [a \in ApiClients |-> IdleApi]
    /\ nsteps = 0
    /\ nenq = 0
    /\ dispatches = [c \in Campaigns |-> [period |-> 1, count |-> 0]]

Init ==
    /\ users = CampaignUsers
    /\ inboundEvents = <<>>
    /\ receipts = <<>>
    /\ messages = <<>>
    /\ lastResponse = NoResponse
    /\ handlers = [h \in Handlers |-> IdleHandler]
    /\ IdleLimiter
    /\ IdleOrchestrator

Next ==
    \/ \E b \in Sweepers : SweepQuery(b)
    \/ \E b \in Sweepers : SweepEnqueue(b)
    \/ \E b \in Sweepers : SweepCommit(b)
    \/ \E a \in ApiClients, c \in Campaigns, dry_run \in BOOLEAN :
          TriggerApiStart(a, c, dry_run)
    \/ \E a \in ApiClients : TriggerApiCommit(a)
    \/ \E c \in Campaigns, status \in Statuses : update_campaign(c, status)
    \/ \E w \in Workers, j \in BagToSet(jobs) : trigger_campaign_execution(w, j)
    \/ \E w \in Workers, j \in BagToSet(jobs) : RunStart(w, j)
    \/ \E w \in Workers, redisOk \in BOOLEAN, send \in SendResults, dbOk \in BOOLEAN :
          ProcessRecipient(w, redisOk, send, dbOk)
    \/ \E w \in Workers : RunComplete(w)
    \/ \E w \in Workers : RunFailed(w)
    \/ RunTick

Spec == Init /\ [][Next]_vars

\* C1: the store holds at most one Message row for each (campaign_id,
\* recipient phone) pair
C1_OneMessagePerRecipient ==
    \A i, k \in 1..Len(messages) :
        (/\ messages[i].campaign_id = messages[k].campaign_id
         /\ messages[i].phone = messages[k].phone) => i = k

\* C2: no campaign is dispatched by the sweeps more than once for one READY
\* period
C2_OneDispatchPerReadyPeriod ==
    \A c \in Campaigns : dispatches[c].count <= 1

\* C3: no two executions of run_campaign_task iterate the recipients of the
\* same campaign at the same time
C3_OneRunnerPerCampaign ==
    \A w, v \in Workers :
        (/\ workers[w].pc = "loop"
         /\ workers[v].pc = "loop"
         /\ workers[w].campaign = workers[v].campaign) => w = v

\* the directed edges of the campaign state machine
CampaignEdges ==
    { <<"DRAFT", "READY">>, <<"READY", "RUNNING">>, <<"RUNNING", "COMPLETED">>,
      <<"RUNNING", "PAUSED">>, <<"PAUSED", "READY">>, <<"PAUSED", "RUNNING">>,
      <<"RUNNING", "FAILED">>, <<"FAILED", "READY">> }

\* C4: every change of a campaign's status is a directed edge of the campaign
\* state machine
C4_StatusChangesAreEdges ==
    [][\A c \in Campaigns :
          campaignStatus'[c] # campaignStatus[c]
             => <<campaignStatus[c], campaignStatus'[c]>> \in CampaignEdges]_vars

-----------------------------------------------------------------------------
(* The inbound webhook, its processing task and the bulk import *)

InitWebhook ==
    /\ EmptyStore
    /\ IdleLimiter
    /\ IdleOrchestrator

NextWebhook ==
    \/ \E payload \in InboundPayloads, dbOk \in BOOLEAN :
          inbound_webhook(payload, dbOk)
    \/ \E event_id \in 1..Len(inboundEvents), dbOk \in BOOLEAN :
          process_inbound_message(event_id, dbOk)
    \/ \E file \in ImportFiles, dbOk \in BOOLEAN : bulk_ingest_users(file, dbOk)

SpecWebhook == InitWebhook /\ [][NextWebhook]_vars

\* the STOP intents of the consent contract
StopIntents == StopKeywords \cup {<<"o", "p", "t", "-", "o", "u", "t">>}

\* the START intents of the consent contract
StartIntents == OptInKeywords \cup {<<"u", "n", "s", "t", "o", "p">>}

\* the last step was the request or task named, and it committed
JustDone(endpoint, body) ==
    /\ lastResponse.endpoint = endpoint
    /\ lastResponse.body = body

\* C5: when the inbound webhook acknowledges a message whose From normalizes
\* to a phone and whose body normalizes to a STOP intent, the user with that
\* phone exists and has consent_state STOP
C5_StopAtAcknowledgement ==
    (/\ JustDone("inbound", "received")
     /\ NormalizeBody(lastResponse.request.Body) \in StopIntents)
    => LET phone == extract_channel_and_phone(lastResponse.request.From)[2] IN
       /\ phone \in DOMAIN users
       /\ users[phone].consent_state = "STOP"

\* C6: a bulk import leaves consent_state STOP of every user that has it
C6_StopSurvivesImport ==
    [][(lastResponse'.seq # lastResponse.seq
        /\ lastResponse'.endpoint = "bulk_ingest_users")
       => \A ph \in DOMAIN users :
             users[ph].consent_state = "STOP" => users'[ph].consent_state = "STOP"]_vars

\* C7: processing an inbound message of an existing user sets consent_state
\* to OPT_IN if the body is exactly a START intent and the state was STOP,
\* and leaves it unchanged otherwise
C7_StartReopensOnlyStop ==
    [][(/\ lastResponse'.seq # lastResponse.seq
        /\ lastResponse'.endpoint = "process_inbound_message"
        /\ lastResponse'.body = "committed")
       => LET phone == extract_channel_and_phone(lastResponse'.request.From)[2]
              start == NormalizeBody(lastResponse'.request.Body) \in StartIntents
          IN  phone \in DOMAIN users =>
                 users'[phone].consent_state =
                    IF start /\ users[phone].consent_state = "STOP"
                    THEN "OPT_IN" ELSE users[phone].consent_state]_vars

-----------------------------------------------------------------------------
(* The status webhook and its processing task *)

\* two messages of campaign 1 as a run leaves them: sent, receipts pending
SentMessages ==
    << NewMessage(1, <<"+", "1", "4">>, ("name" :> "Al"), TRUE, Sid(1), 0),
       NewMessage(1, <<"+", "2", "5">>, ("name" :> "Bo"), TRUE, Sid(2), 0) >>

InitReceipt ==
    /\ users = CampaignUsers
    /\ inboundEvents = <<>>
    /\ receipts = <<>>
    /\ messages = SentMessages
    /\ lastResponse = NoResponse
    /\ handlers = [h \in Handlers |-> IdleHandler]
    /\ IdleLimiter
    /\ IdleOrchestrator

NextReceipt ==
    \/ \E payload \in StatusPayloads, dbOk \in BOOLEAN : status_webhook(payload, dbOk)
    \/ \E receipt_id \in 1..Len(receipts), dbOk \in BOOLEAN :
          process_status_callback(receipt_id, dbOk)

SpecReceipt == InitReceipt /\ [][NextReceipt]_vars

\* the advances of the delivery graph and the moves to FAILED / UNDELIVERED
MessageEdges ==
    { <<"QUEUED", "SENDING">>, <<"QUEUED", "SENT">>, <<"QUEUED", "DELIVERED">>,
      <<"QUEUED", "READ">>, <<"SENDING", "SENT">>, <<"SENDING", "DELIVERED">>,
      <<"SENDING", "READ">>, <<"SENT", "DELIVERED">>, <<"SENT", "READ">>,
      <<"DELIVERED", "READ">> }
    \cup ({"QUEUED", "SENDING", "SENT"} \X {"FAILED", "UNDELIVERED"})

\* C8: every change of a message's status is an advance along the delivery
\* graph or a move from a non-terminal state to FAILED or UNDELIVERED
C8_ReceiptsNeverRegress ==
    [][\A i \in 1..Len(messages) :
          messages'[i].status # messages[i].status
             => <<messages[i].status, messages'[i].status>> \in MessageEdges]_vars

-----------------------------------------------------------------------------
(* The rate limiter on its own *)

InitRate ==
    /\ IdleLimiter
    /\ EmptyStore
    /\ IdleOrchestrator

NextRate ==
    \/ \E p \in Callers, c \in Campaigns : CallStart(p, c)
    \/ \E p \in Callers : CallWatchGet(p)
    \/ \E p \in Callers : CallExec(p)
    \/ \E p \in Callers : CallRetry(p)
    \/ \E p \in Callers : CallStoreError(p)
    \/ Tick

SpecRate == InitRate /\ [][NextRate]_vars

\* calls that returned allowed=True for the key <<c, s>>
AllowedForKey(c, s) ==
    SumOver(admissions, {h \in DOMAIN admissions : h[1] = c /\ h[2] = s})

\* calls of campaign c admitted in the window of one second starting at tick t
AdmittedInWindow(c, t) ==
    SumOver(admissions, {h \in DOMAIN admissions :
                           h[1] = c /\ h[3] >= t /\ h[3] < t + TicksPerSecond})

\* C9: for every campaign and epoch second, at most rate_limit calls return
\* allowed=True for the key (campaign, second)
C9_AtMostLimitPerKey ==
    \A c \in Campaigns : \A s \in 0..(MaxTick \div TicksPerSecond) :
        AllowedForKey(c, s) <= RateLimit[c]

\* C10: in every one-second window, whatever its start instant, at most
\* rate_limit calls of the campaign are admitted
C10_AtMostLimitPerWindow ==
    \A c \in Campaigns : \A t \in 0..MaxTick :
        AdmittedInWindow(c, t) <= RateLimit[c]

-----------------------------------------------------------------------------
(* The run when the counter store fails *)

\* the recipient a worker processed last
LastRecipient(w) == workers[w].recipients[workers[w].idx - 1]

\* C11: a recipient whose limiter call hit a store failure is not rate
\* limited: it goes on to rendering and dispatch, and the failure is not
\* raised into the run
C11_StoreFailureFailsOpen ==
    \A w \in Workers :
        workers[w].last.limiter = "store_error" =>
            /\ workers[w].pc = "loop"
            /\ workers[w].last.outcome \in
                   {"sent", "failed", "missing_template_data", "error"}
            /\ workers[w].last.outcome \in {"sent", "failed"} =>
                   \E i \in 1..Len(messages) :
                       /\ messages[i].campaign_id = workers[w].campaign
                       /\ messages[i].phone = LastRecipient(w)

C11_Witness ==
    \E w \in Workers :
        /\ workers[w].last = [limiter |-> "store_error", outcome |-> "sent"]
        /\ \E i \in 1..Len(messages) :
               /\ messages[i].campaign_id = workers[w].campaign
               /\ messages[i].phone = LastRecipient(w)
               /\ messages[i].status = "SENT"

\* whether the store holds a Message of campaign c for phone
Materialized(c, phone) ==
    \E i \in 1..Len(messages) :
        messages[i].campaign_id = c /\ messages[i].phone = phone

\* C12: a run that comes to a recipient who already has a Message of the
\* campaign creates no further Message row and counts the recipient as a
\* duplicate
C12_RerunCreatesNoMessage ==
    [][\A w \in Workers :
          (/\ workers[w].pc = "loop"
           /\ workers[w].idx <= Len(workers[w].recipients)
           /\ workers'[w].idx = workers[w].idx + 1
           /\ Materialized(workers[w].campaign, workers[w].recipients[workers[w].idx]))
          => /\ messages' = messages
             /\ workers'[w].last.outcome = "duplicate"]_vars

-----------------------------------------------------------------------------
(* Replayed webhooks *)

\* the two webhooks and the receipt task, with time passing between
\* deliveries
NextReplay ==
    \/ \E payload \in InboundPayloads, dbOk \in BOOLEAN :
          inbound_webhook(payload, dbOk)
    \/ \E payload \in StatusPayloads, dbOk \in BOOLEAN : status_webhook(payload, dbOk)
    \/ \E receipt_id \in 1..Len(receipts), dbOk \in BOOLEAN :
          process_status_callback(receipt_id, dbOk)
    \/ RunTick

SpecReplay == InitReceipt /\ [][NextReplay]_vars

\* the step repeats the request or task before it: same endpoint, same
\* payload, both committed
IsReplay ==
    /\ lastResponse'.seq # lastResponse.seq
    /\ lastResponse'.endpoint = lastResponse.endpoint
    /\ lastResponse'.request = lastResponse.request
    /\ lastResponse'.body = lastResponse.body
    /\ lastResponse.body \in {"received", "committed"}

\* C13: delivering an identical inbound or status webhook a second time,
\* or processing an identical receipt a second time, leaves users and
\* messages as they were and adds at most one raw row
C13_ReplayLeavesStateEqual ==
    [][IsReplay =>
          /\ users' = users
          /\ messages' = messages
          /\ Len(inboundEvents') + Len(receipts')
                 <= Len(inboundEvents) + Len(receipts) + 1]_vars

\* two identical status webhooks were delivered and both were applied to
\* the Message, the second at a later time
C13_Witness ==
    /\ now > 0
    /\ lastResponse.endpoint = "process_status_callback"
    /\ lastResponse.body = "committed"
    /\ \E i, k \in 1..Len(receipts) :
          /\ i # k
          /\ receipts[i].raw_payload = receipts[k].raw_payload
          /\ receipts[i].raw_payload = lastResponse.request
          /\ receipts[i].user_phone # None
          /\ receipts[k].user_phone # None

-----------------------------------------------------------------------------
(* The inbound webhook's transaction *)

\* the step is a request to POST /webhooks/inbound
InboundStep ==
    /\ lastResponse'.seq # lastResponse.seq
    /\ lastResponse'.endpoint = "inbound"

C16_BadFromStoresNothing ==
    [][(InboundStep
        /\ extract_channel_and_phone(lastResponse'.request.From)[2] = None)
       => /\ lastResponse'.code = 200
          /\ inboundEvents' = inboundEvents
          /\ users' = users]_vars

\* a request with a From that is not a phone was answered while the store
\* already held an event and a user
C16_Witness ==
    /\ lastResponse.endpoint = "inbound"
    /\ lastResponse.code = 200
    /\ extract_channel_and_phone(lastResponse.request.From)[2] = None
    /\ lastResponse.request.From # <<>>
    /\ Len(inboundEvents) > 0
    /\ DOMAIN users # {}

-----------------------------------------------------------------------------
(* Response codes of the webhooks *)

\* C15: every response of POST /webhooks/inbound and POST /webhooks/status
\* has status code 200
C15_WebhooksAnswer200 ==
    lastResponse.endpoint \in {"inbound", "status"} => lastResponse.code = 200

-----------------------------------------------------------------------------
(* Receipts while a campaign runs *)

\* campaign 1 has been triggered: its status is RUNNING and its
\* run_campaign_task is in the queue
InitReconcile ==
    /\ users = CampaignUsers
    /\ inboundEvents = <<>>
    /\ receipts = <<>>
    /\ messages = <<>>
    /\ lastResponse = NoResponse
    /\ handlers = [h \in Handlers |-> IdleHandler]
    /\ IdleLimiter
    /\ campaignStatus = [c \in Campaigns |-> IF c = 1 THEN "RUNNING" ELSE "DRAFT"]
    /\ jobs = Enqueue(EmptyBag, RunJob(1, 0))
    /\ workers = [w \in Workers |-> IdleWorker]
    /\ sweepers = [b \in Sweepers |-> IdleSweeper]
    /\ apiCalls = [a \in ApiClients |-> IdleApi]
    /\ nsteps = 0
    /\ nenq = 0
    /\ dispatches = [c \in Campaigns |-> [period |-> 1, count |-> IF c = 1 THEN 1 ELSE 0]]

\* the steps of the Celery worker on run_campaign_task
WorkerStep ==
    \/ \E w \in Workers, j \in BagToSet(jobs) : RunStart(w, j)
    \/ \E w \in Workers, redisOk \in BOOLEAN, send \in SendResults, dbOk \in BOOLEAN :
          ProcessRecipient(w, redisOk, send, dbOk)
    \/ \E w \in Workers : RunComplete(w)
    \/ \E w \in Workers : RunFailed(w)

\* the receipts Twilio sends for the first message it accepted
FirstSidPayloads ==
    {payload \in StatusPayloads :
        /\ payload.MessageSid = Sid(1)
        /\ Lower(payload.MessageStatus) \in
               {<<"d", "e", "l", "i", "v", "e", "r", "e", "d">>, <<"r", "e", "a", "d">>}}

\* the run of one campaign within one second, with at most MaxReceipts
\* status requests and receipt tasks beside it
NextReconcile ==
    \/ WorkerStep
    \/ \E payload \in FirstSidPayloads, dbOk \in BOOLEAN :
          lastResponse.seq < MaxReceipts /\ status_webhook(payload, dbOk)
    \/ \E receipt_id \in 1..Len(receipts), dbOk \in BOOLEAN :
          lastResponse.seq < MaxReceipts /\ process_status_callback(receipt_id, dbOk)

\* the worker runs the tasks in its queue and a started task goes on; the
\* webhook enqueues no process_status_callback and the beat schedule has no
\* sweep over receipts, so nothing makes that task run
SpecReconcile ==
    InitReconcile /\ [][NextReconcile]_vars /\ WF_vars(WorkerStep)

\* receipt i is stored, a Message with its sid is committed, and the
\* receipt has not been applied to it
Unapplied(i) ==
    /\ i <= Len(receipts)
    /\ FindMessageBySid(receipts[i].message_sid) # 0
    /\ receipts[i].user_phone = None

\* receipt i has been applied to its Message
Applied(i) ==
    /\ i <= Len(receipts)
    /\ receipts[i].user_phone # None

\* C17: a receipt that the status webhook commits while a Message with its
\* sid exists is eventually applied to that Message
C17_MatchingReceiptApplied ==
    \A i \in 1..MaxReceipts :
        (/\ Unapplied(i)
         /\ lastResponse.endpoint = "status"
         /\ lastResponse.body = "received"
         /\ lastResponse.request = receipts[i].raw_payload) ~> Applied(i)

\* C18: a receipt that was processed while no Message had its sid is
\* eventually applied once that Message is committed
C18_EarlyReceiptApplied ==
    \A i \in 1..MaxReceipts :
        (/\ Unapplied(i)
         /\ lastResponse.endpoint = "process_status_callback"
         /\ lastResponse.body = "unmatched"
         /\ lastResponse.request = receipts[i].raw_payload) ~> Applied(i)

-----------------------------------------------------------------------------
(* Errors inside and outside the recipient loop *)

\* C19: whatever happens to one recipient, the run goes on to the next
\* recipient of the same list; an exception is recorded in the errors of
\* the run
C19_ErrorDoesNotStopRun ==
    [][\A w \in Workers :
          (/\ workers[w].pc = "loop"
           /\ workers[w].idx <= Len(workers[w].recipients)
           /\ workers'[w] # workers[w])
          => /\ workers'[w].pc = "loop"
             /\ workers'[w].idx = workers[w].idx + 1
             /\ workers'[w].recipients = workers[w].recipients
             /\ workers'[w].campaign = workers[w].campaign
             /\ workers'[w].last.outcome = "error"
                   => workers'[w].errors = workers[w].errors + 1]_vars

\* a run recorded an error for one recipient and then sent to a later one
C19_Witness ==
    \E w \in Workers :
        /\ workers[w].pc = "loop"
        /\ workers[w].errors > 0
        /\ workers[w].last.outcome = "sent"
        /\ \A i \in 1..Len(messages) : messages[i].status = "SENT"

\* C20: the failure handler of run_campaign_task leaves the campaign FAILED
\* and no step of a worker moves a campaign to READY
C20_FatalErrorMarksFailed ==
    [][\A w \in Workers :
          (workers[w].pc = "failed" /\ workers'[w].pc = "idle")
          => /\ campaignStatus'[workers[w].campaign] = "FAILED"
             /\ campaignStatus'[workers[w].campaign] # "READY"]_vars

-----------------------------------------------------------------------------
(* Termination of a run *)

\* the model's budget of published tasks is used up while worker w is
\* still in the loop, where its next retry could not be published
QueueFull(w) == workers[w].pc = "loop" /\ nenq >= MaxJobs

-----------------------------------------------------------------------------
(* The gates of the recipient loop *)

\* worker w processes the recipient it stands at in this step
AtRecipient(w) ==
    /\ workers[w].pc = "loop"
    /\ workers[w].idx <= Len(workers[w].recipients)
    /\ workers'[w].idx = workers[w].idx + 1

\* the recipient worker w stands at
Recipient(w) == workers[w].recipients[workers[w].idx]

InHalfOpenWindow(start, end, t) ==
    IF start <= end THEN start <= t /\ t < end
    ELSE t >= start \/ t < end

\* C23: for a campaign with quiet hours, an OPT_IN recipient is skipped as
\* quiet_hours exactly when the current time lies in [start, end), and then
\* no Message is created
C23_QuietWindowHalfOpen ==
    [][\A w \in Workers :
          (/\ AtRecipient(w)
           /\ users[Recipient(w)].consent_state = "OPT_IN"
           /\ QuietHours[workers[w].campaign] # None)
          => LET hours == QuietHours[workers[w].campaign]
                 quiet == workers'[w].last.outcome = "quiet_hours" IN
             /\ quiet <=> InHalfOpenWindow(hours[1], hours[2], now)
             /\ quiet => messages' = messages]_vars

-----------------------------------------------------------------------------
(* Dry runs and operator commands *)

\* C25: a trigger request with dry_run = true creates no Message,
\* publishes no task and leaves every campaign's status as it was
C25_DryRunChangesNothing ==
    [][\A a \in ApiClients :
          apiCalls'[a].dry_runs = apiCalls[a].dry_runs + 1
          => /\ messages' = messages
             /\ jobs' = jobs
             /\ nenq' = nenq
             /\ campaignStatus' = campaignStatus
             /\ apiCalls'[a].pc = "idle"]_vars

\* a dry run of the READY campaign was answered and the campaign is still
\* READY with nothing queued and nothing sent
C25_Witness ==
    /\ \E a \in ApiClients : apiCalls[a].dry_runs > 0
    /\ campaignStatus[1] = "READY"
    /\ jobs = EmptyBag
    /\ messages = <<>>
    /\ dispatches[1].count = 0

\* C26: a worker whose campaign has been set to PAUSED creates no further
\* Message and does not overwrite PAUSED
C26_PauseStopsRun ==
    [][\A w \in Workers :
          (/\ workers[w].pc = "loop"
           /\ campaignStatus[workers[w].campaign] = "PAUSED"
           /\ workers'[w] # workers[w])
          => /\ messages' = messages
             /\ campaignStatus'[workers[w].campaign] = "PAUSED"]_vars

-----------------------------------------------------------------------------
(* Inbound requests served at the same time *)

\* requests of one sender and of a second one
ConcurrentPayloads ==
    {payload \in InboundPayloads :
        extract_channel_and_phone(payload.From)[2]
            \in {<<"+", "1", "4">>, <<"+", "2", "5">>}}

NextConcurrent ==
    \/ \E h \in Handlers, payload \in ConcurrentPayloads : InboundLookup(h, payload)
    \/ \E h \in Handlers : InboundCommit(h)

SpecConcurrent == InitWebhook /\ [][NextConcurrent]_vars

\* C27: every inbound request, whatever runs beside it, persists its
\* InboundEvent, and a STOP request leaves its sender with consent_state
\* STOP
C27_EveryEventPersisted ==
    [][\A h \in Handlers :
          (handlers[h].pc = "commit" /\ handlers'[h].pc = "idle")
          => LET payload == handlers[h].payload
                 phone == extract_channel_and_phone(payload.From)[2] IN
             /\ Len(inboundEvents') = Len(inboundEvents) + 1
             /\ inboundEvents'[Len(inboundEvents')].raw_payload = payload
             /\ NormalizeBody(payload.Body) \in StopKeywords
                   => /\ phone \in DOMAIN users'
                      /\ users'[phone].consent_state = "STOP"]_vars

-----------------------------------------------------------------------------
(* Every path that writes a User *)

NextUsers ==
    \/ NextWebhook
    \/ \E body \in UserCreateBodies, dbOk \in BOOLEAN : create_user(body, dbOk)

SpecUsers == InitWebhook /\ [][NextUsers]_vars

\* the phone a stored key stands for, by the normalizer of the webhooks
NormalizedPhone(phone) == extract_channel_and_phone(phone)[2]

\* C28: no two User rows stand for the same normalized phone
C28_OneUserPerPhone ==
    \A p, q \in DOMAIN users : NormalizedPhone(p) = NormalizedPhone(q) => p = q

\* C29: the phone of every User row is, as a whole, + followed by a digit
\* 1-9 and 1 to 14 further digits
C29_EveryUserPhoneE164 == \A phone \in DOMAIN users : StrictE164(phone)

-----------------------------------------------------------------------------
(* Accounting of a campaign run *)

\* C30: a run that completes has processed every resolved recipient and
\* the outcome counters of its results add up to the number of recipients
C30_EveryRecipientCountedOnce ==
    [][\A w \in Workers :
          (workers[w].pc = "loop" /\ workers'[w].pc = "idle")
          => /\ workers[w].idx - 1 = Len(workers[w].recipients)
             /\ workers[w].accounted = Len(workers[w].recipients)]_vars

-----------------------------------------------------------------------------
(* The denial branch of the recipient loop *)

\* the step moves worker w past a recipient that it counts as rate-limit
\* skip
SkipsRateLimited(w) ==
    /\ workers[w].pc = "loop"
    /\ workers'[w].pc = "loop"
    /\ workers'[w].idx = workers[w].idx + 1
    /\ workers'[w].last.outcome = "rate_limit"

\* C31: a recipient is passed over as rate-limit skip only on its second
\* denial: the worker's attempt just before was a denial too, after which it
\* stayed at the recipient
C31_DeniedRecipientRetriedOnce ==
    [][\A w \in Workers :
          SkipsRateLimited(w) => workers[w].last.outcome = "rate_limit"]_vars

\* C36: a denial publishes no execution of the campaign job
C36_DenialEnqueuesNoJob ==
    [][\A w \in Workers :
          SkipsRateLimited(w) => jobs' = jobs /\ nenq' = nenq]_vars

-----------------------------------------------------------------------------
(* The Message row of a send *)

\* the step is an iteration of worker w that called the provider
CalledProvider(w) ==
    /\ workers[w].pc = "loop"
    /\ workers'[w].pc = "loop"
    /\ workers'[w].idx = workers[w].idx + 1
    /\ workers'[w].send # "none"

\* C32: an iteration that called the provider commits one Message row for
\* its recipient: SENT with provider_sid and sent_at when the adapter
\* reported success, FAILED with an error_code and no provider_sid when it
\* reported a failure of either kind
C32_SendLeavesMessageRow ==
    [][\A w \in Workers :
          CalledProvider(w)
          => /\ Len(messages') = Len(messages) + 1
             /\ LET row == messages'[Len(messages')] IN
                /\ row.campaign_id = workers[w].campaign
                /\ row.phone = workers[w].recipients[workers[w].idx]
                /\ IF workers'[w].send = "sent"
                   THEN /\ row.status = "SENT"
                        /\ row.provider_sid # None
                        /\ row.sent_at # Null
                   ELSE /\ row.status = "FAILED"
                        /\ row.provider_sid = None
                        /\ row.error_code # Null]_vars

\* C33: after an iteration that called the provider the store holds a
\* Message row of that iteration for the recipient, whatever became of the
\* transaction after the send
C33_RowSurvivesTheSend ==
    [][\A w \in Workers :
          CalledProvider(w)
          => /\ Len(messages') > Len(messages)
             /\ messages'[Len(messages')].phone =
                    workers[w].recipients[workers[w].idx]]_vars

-----------------------------------------------------------------------------
(* What a sweep selects *)

\* the campaigns of a sequence
Range(seq) == {seq[i] : i \in 1..Len(seq)}

\* C34: the campaigns a sweep selects are READY and have no schedule_time or
\* one that is not later than now; the sweep enqueues a job and writes
\* RUNNING for a campaign it selected and for no other
C34_SweepTakesDueReadyOnly ==
    [][\A b \in Sweepers :
          /\ (sweepers[b].pc = "idle" /\ sweepers'[b].pc = "enqueue")
             => /\ \A c \in Range(sweepers'[b].ready) :
                      /\ campaignStatus[c] = "READY"
                      /\ ScheduleTime[c] = Null \/ ScheduleTime[c] <= now
                /\ jobs' = jobs
                /\ campaignStatus' = campaignStatus
          /\ (sweepers[b].pc = "enqueue" /\ sweepers'[b].pc = "commit")
             => /\ jobs' = Enqueue(jobs, RunJob(Head(sweepers[b].ready), 0))
                /\ campaignStatus' = campaignStatus
          /\ (sweepers[b].pc = "commit" /\ sweepers'[b].pc # "commit")
             => /\ jobs' = jobs
                /\ campaignStatus' = [campaignStatus EXCEPT
                                         ![Head(sweepers[b].ready)] = "RUNNING"]]_vars

\* a sweep has promoted the scheduled campaign once it was due
C34_Witness ==
    /\ campaignStatus[1] = "RUNNING"
    /\ dispatches[1].count = 1
    /\ now >= ScheduleTime[1]
    /\ \E b \in Sweepers : sweepers[b] = IdleSweeper

-----------------------------------------------------------------------------
(* The trigger API and its task *)

\* the step is an execution of trigger_campaign_execution(c)
TriggerConsumed(c) == CopiesIn(TriggerJob(c), jobs') < CopiesIn(TriggerJob(c), jobs)

\* C35: the trigger task of a campaign that the API found READY or DRAFT,
\* whether it runs before or after the handler's commit of RUNNING,
\* enqueues one run_campaign_task for the campaign
C35_TriggerEnqueuesOneRun ==
    [][\A c \in Campaigns :
          (TriggerConsumed(c) /\ campaignStatus[c] \in {"READY", "DRAFT", "RUNNING"})
          => /\ CopiesIn(RunJob(c, 0), jobs') = CopiesIn(RunJob(c, 0), jobs) + 1
             /\ campaignStatus'[c] = "RUNNING"]_vars

-----------------------------------------------------------------------------
(* The job of a sweep and the status it expects *)

\* the step starts, on worker w, a first execution of the job of campaign c
StartsRun(w, c) ==
    /\ workers[w].pc = "idle"
    /\ workers'[w].pc # "idle"
    /\ workers'[w].campaign = c
    /\ workers'[w].retries = 0

\* sweep b has published the job of campaign c and not yet committed RUNNING
SweepUncommitted(b, c) ==
    sweepers[b].pc = "commit" /\ Head(sweepers[b].ready) = c

\* C37: a worker that starts the job of a sweep, however early, finds the
\* campaign RUNNING and enters the recipient loop
C37_SweptJobFindsRunning ==
    [][\A w \in Workers, c \in Campaigns :
          (StartsRun(w, c) /\ \E b \in Sweepers : SweepUncommitted(b, c))
          => /\ campaignStatus[c] = "RUNNING"
             /\ workers'[w].pc = "loop"]_vars

\* C38: an execution of run_campaign_task that found its campaign not
\* RUNNING ends without a new Message and without a change of the
\* campaign's status
C38_NotRunningChangesNothing ==
    [][\A w \in Workers :
          (workers[w].pc = "failed" /\ workers'[w].pc = "idle")
          => /\ messages' = messages
             /\ campaignStatus' = campaignStatus]_vars

-----------------------------------------------------------------------------
(* Failed runs and the sweep *)

\* campaign 1 has been dispatched; the sweeps and the workers run, and an
\* operator may pause the campaign
NextRedispatch ==
    \/ \E b \in Sweepers : SweepQuery(b)
    \/ \E b \in Sweepers : SweepEnqueue(b)
    \/ \E b \in Sweepers : SweepCommit(b)
    \/ update_campaign(1, "PAUSED")
    \/ WorkerStep
    \/ RunTick

SpecRedispatch == InitReconcile /\ [][NextRedispatch]_vars

\* a retry of a failed or refused execution of campaign c is queued
RetryPending(c) ==
    \E r \in 1..max_retries : CopiesIn(RunJob(c, r), jobs) > 0

\* C39: the executions of a campaign are those of one job and of its
\* retries: the failure handler leaves a status the sweep does not select,
\* and no sweep publishes a fresh job for a campaign while a retry of it is
\* queued
C39_FailedRunNotRedispatched ==
    [][\A b \in Sweepers :
          (sweepers[b].pc = "enqueue" /\ sweepers'[b].pc = "commit")
          => ~RetryPending(Head(sweepers[b].ready))]_vars

-----------------------------------------------------------------------------
(* STOP while a campaign runs *)

\* the STOP requests of the campaign's users
StopPayloads ==
    {payload \in InboundPayloads :
        /\ NormalizeBody(payload.Body) \in StopKeywords
        /\ extract_channel_and_phone(payload.From)[2] \in DOMAIN CampaignUsers}

\* campaign 1 has been dispatched; the workers run while STOP requests
\* arrive
NextStop ==
    \/ WorkerStep
    \/ \E payload \in StopPayloads, dbOk \in BOOLEAN :
          /\ lastResponse.seq < MaxReceipts
          /\ inbound_webhook(payload, dbOk)

SpecStop == InitReconcile /\ [][NextStop]_vars

\* C40: a recipient whose row says STOP when the worker processes it gets no
\* send and no Message in that step
C40_StopBeforeGateNotSent ==
    [][\A w \in Workers :
          (AtRecipient(w) /\ users[Recipient(w)].consent_state = "STOP")
          => /\ messages' = messages
             /\ workers'[w].send = "none"]_vars

=============================================================================
